---------------------------- MODULE Spec2Model ----------------------------
(***************************************************************************)
(* A state-machine model of clatd.c: the privileged bootstrap of main,     *)
(* configure_interface, the event loop with read_packet and the periodic   *)
(* interface_poll, and the SIGTERM handler stop_loop.                      *)
(*                                                                         *)
(* The main control path is one sequential process whose position is pc.   *)
(* The environment (system calls, the network backend, the clock, the      *)
(* uplink) is observable only when the code asks it, so every system call  *)
(* draws its result with \E at the step that makes the call. The only      *)
(* asynchronous step is the signal handler.                                *)
(***************************************************************************)
EXTENDS Integers, Sequences, FiniteSets, TLC

(***************************************************************************)
(* Program constants.                                                      *)
(***************************************************************************)
MTU_DELTA == 28
MAXMTU == 1500
MIN_IPV6_MTU == 1280
ETH_P_IP == 2048
ETH_P_IPV6 == 34525
header_size == 4
INTERFACE_POLL_FREQUENCY == 30

(***************************************************************************)
(* Bounds of the model.                                                    *)
(***************************************************************************)
MaxTime == 62

NULL == "NULL"

\* The characters of a -n argument, as strtoul classifies them.
IsDigit(c) == c \in {"0", "1", "2", "3", "4", "5", "6", "7", "8", "9"}
IsSpace(c) == c = " "
IsSign(c) == c \in {"+", "-"}

RECURSIVE SkipWhile(_, _, _)
\* The first index >= i of s whose character does not satisfy the class
\* cls ("space" or "digit"); Len(s) + 1 when there is none.
SkipWhile(s, i, cls) ==
  IF i > Len(s) THEN i
  ELSE IF (cls = "space" /\ IsSpace(s[i])) \/ (cls = "digit" /\ IsDigit(s[i]))
       THEN SkipWhile(s, i + 1, cls)
       ELSE i

\* strtoul(s, &end_ptr, 0) on a decimal subject: the index end_ptr points at.
\* Leading white space and one sign are skipped; with no digit the subject
\* sequence is empty and end_ptr is the start of the string.
StrtoulEnd(s) ==
  LET a == SkipWhile(s, 1, "space")
      b == IF a <= Len(s) /\ IsSign(s[a]) THEN a + 1 ELSE a
      e == SkipWhile(s, b, "digit")
  IN IF e = b THEN 1 ELSE e

\* Mutant of NetIdValid: *endptr is not looked at, only the empty string
\* is rejected.
NetIdValid_NoEndptrTest(s) == ~(Len(s) = 0)

\* main's test of -n: *net_id_str == 0 || *end_ptr != 0 rejects the value.
NetIdValid(s) == ~(Len(s) = 0 \/ StrtoulEnd(s) <= Len(s))

\* The -n strings tried: empty, a number, a number with a trailing letter,
\* a word, a lone sign, a lone blank.
NetIdStrings ==
  { <<>>, <<"1", "0", "0">>, <<"1", "2", "x">>, <<"n", "o", "t">>,
    <<"-">>, <<" ">> }

\* net_id_str: NULL (given = FALSE) or one of the strings.
NetIdArgs ==
  {[given |-> FALSE, s |-> <<>>]} \cup [given : {TRUE}, s : NetIdStrings]

\* The command lines tried: [i] the -i value, [n] the -n value, [h] -h or an
\* unknown option given.
ArgvSet ==
  [i : {NULL, "wlan0"}, n : NetIdArgs, h : BOOLEAN]

VARIABLES
  argv,                 \* the command line
  pc,                   \* position of the main control path
  exit_status,          \* -1 while the process runs, else its exit status
  running,              \* volatile sig_atomic_t running
  handler,              \* TRUE once signal(SIGTERM, stop_loop) succeeded
  next_fd,              \* the lowest free descriptor number
  tunnel,               \* struct tun_data: read_fd6, fd4, write_fd6
  forwarding_fd,        \* int forwarding_fd
  privs,                \* the privilege-drop calls made so far, in order
  config,               \* Global_Clatd_Config: mtu, ipv4mtu, ipv6_local_subnet
  conf_in,              \* the MTUs read_config read and getifmtu returned
  tun_steps,            \* the device configuration calls that succeeded, in order
  routes,               \* the /128 host routes installed via device6
  fwd_writes,           \* the writes made to forwarding_fd, in order
  revents,              \* wait_fd[i].revents of the current iteration
  now,                  \* the last value time(NULL) returned
  last_interface_poll,  \* event_loop's timer
  interface_ip,         \* interface_poll's local: the uplink address, derived
  last_read,            \* the most recent read_packet call and what it did
  zero_fd,              \* index of the first descriptor that read 0 bytes, or -1
  xlat_after_zero,      \* translate_packet calls made after that read
  sig,                  \* TRUE once SIGTERM was delivered to stop_loop
  polls_after_sig,      \* poll() calls begun after that delivery
  poll_log,             \* what the most recent interface_poll saw and did
  last_change           \* the subnet interface_poll last switched to, if any

vars ==
  << argv, pc, exit_status, running, handler, next_fd, tunnel, forwarding_fd,
     privs, config, conf_in, tun_steps, routes, fwd_writes, revents, now,
     last_interface_poll, interface_ip, last_read, zero_fd, xlat_after_zero,
     sig, polls_after_sig, poll_log, last_change >>

\* Groups of variables an action leaves alone.
boot_vars == << argv, next_fd, tunnel, forwarding_fd, privs >>
conf_vars == << config, conf_in, tun_steps >>
loop_vars == << revents, now, last_interface_poll, interface_ip >>
hist_vars ==
  << last_read, zero_fd, xlat_after_zero, sig, polls_after_sig, poll_log,
     last_change >>

\* IPv6 addresses: a /64 prefix and the low 64 bits. NoAddr stands for no
\* address (a NULL pointer, or a field not yet set).
Prefixes == {"A", "B"}
HostIds == {1, 2}
NoAddr == [prefix |-> "none", host |-> 0]
UplinkAddrs == [prefix : Prefixes, host : HostIds]

\* config_generate_local_ipv6_subnet: the uplink address reduced to the
\* local subnet address of its /64.
config_generate_local_ipv6_subnet(ip) == [ip EXCEPT !.host = 0]

Subnets == {config_generate_local_ipv6_subnet(a) : a \in UplinkAddrs}

\* last_read when read_packet has not run in this iteration. Otherwise: the
\* index i and descriptor fd read, what read() returned, packet[0..3],
\* running before and after the call, and the translate_packet calls made.
NoRead ==
  [i |-> -1, fd |-> -1, readlen |-> -1, packet |-> <<0, 0, 0, 0>>,
   run |-> <<1, 1>>, calls |-> <<>>]

\* poll_log when interface_poll has not run in this iteration. Otherwise:
\* the address getinterface_ip returned, the configured subnet and the
\* routes at the call, and the route and subnet operations made, in order.
NoPoll == [polled |-> FALSE, ip |-> NoAddr, from |-> NoAddr, routes |-> {}, ops |-> <<>>]

Init ==
  /\ argv \in ArgvSet
  /\ pc = "getopt"
  /\ exit_status = -1
  /\ running = 1
  /\ handler = FALSE
  /\ next_fd = 3
  /\ tunnel = [read_fd6 |-> -1, fd4 |-> -1, write_fd6 |-> -1]
  /\ forwarding_fd = -1
  /\ privs = <<>>
  /\ config = [mtu |-> 0, ipv4mtu |-> 0, ipv6_local_subnet |-> NoAddr]
  /\ conf_in = [mtu |-> 0, ipv4mtu |-> 0, ifmtu |-> 0]
  /\ tun_steps = <<>>
  /\ routes = {}
  /\ fwd_writes = <<>>
  /\ revents = [i \in 0..1 |-> FALSE]
  /\ now = 0
  /\ last_interface_poll = 0
  /\ interface_ip = NoAddr
  /\ last_read = NoRead
  /\ zero_fd = -1
  /\ xlat_after_zero = 0
  /\ sig = FALSE
  /\ polls_after_sig = 0
  /\ poll_log = NoPoll
  /\ last_change = NoAddr

\* exit(status), or main's return: the process is gone.
Exit(status) ==
  /\ pc' = "exited"
  /\ exit_status' = status

\* The main path goes on to `next`.
Goto(next) ==
  /\ pc' = next
  /\ UNCHANGED exit_status

(***************************************************************************)
(* main, up to the privilege drop.                                         *)
(***************************************************************************)
\* main: the getopt loop and the checks of -i and -n.
ParseArgs ==
  /\ pc = "getopt"
  /\ IF argv.h THEN Exit(1)
     ELSE IF argv.i = NULL THEN Exit(1)
     ELSE IF argv.n.given /\ ~NetIdValid(argv.n.s) THEN Exit(1)
     ELSE Goto("tun_open6")
  /\ UNCHANGED << boot_vars, conf_vars, loop_vars, hist_vars, running, handler,
                  routes, fwd_writes >>

\* tun_open: open("/dev/tun"), else open("/dev/net/tun"); -1 when both fail.
tun_open(ok) == IF ok THEN next_fd ELSE -1

\* main: tunnel.read_fd6 = tun_open(); fatal when negative.
TunOpen6 ==
  /\ pc = "tun_open6"
  /\ \E ok \in BOOLEAN:
       /\ tunnel' = [tunnel EXCEPT !.read_fd6 = tun_open(ok)]
       /\ next_fd' = IF ok THEN next_fd + 1 ELSE next_fd
       /\ IF tunnel'.read_fd6 < 0 THEN Exit(1) ELSE Goto("tun_open4")
  /\ UNCHANGED << argv, forwarding_fd, privs, conf_vars, loop_vars, hist_vars,
                  running, handler, routes, fwd_writes >>

\* main: tunnel.fd4 = tun_open(); fatal when negative.
TunOpen4 ==
  /\ pc = "tun_open4"
  /\ \E ok \in BOOLEAN:
       /\ tunnel' = [tunnel EXCEPT !.fd4 = tun_open(ok)]
       /\ next_fd' = IF ok THEN next_fd + 1 ELSE next_fd
       /\ IF tunnel'.fd4 < 0 THEN Exit(1) ELSE Goto("open_forwarding")
  /\ UNCHANGED << argv, forwarding_fd, privs, conf_vars, loop_vars, hist_vars,
                  running, handler, routes, fwd_writes >>

\* Mutant of OpenForwarding: a failed open is not fatal.
OpenForwarding_NotFatal ==
  /\ pc = "open_forwarding"
  /\ \E ok \in BOOLEAN:
       /\ forwarding_fd' = IF ok THEN next_fd ELSE -1
       /\ next_fd' = IF ok THEN next_fd + 1 ELSE next_fd
  /\ Goto("open_raw_socket")
  /\ UNCHANGED << argv, tunnel, privs, conf_vars, loop_vars, hist_vars,
                  running, handler, routes, fwd_writes >>

\* main: forwarding_fd = open("/proc/sys/net/ipv6/conf/all/forwarding").
OpenForwarding ==
  /\ pc = "open_forwarding"
  /\ \E ok \in BOOLEAN:
       /\ forwarding_fd' = IF ok THEN next_fd ELSE -1
       /\ next_fd' = IF ok THEN next_fd + 1 ELSE next_fd
       /\ IF forwarding_fd' < 0 THEN Exit(1) ELSE Goto("open_raw_socket")
  /\ UNCHANGED << argv, tunnel, privs, conf_vars, loop_vars, hist_vars,
                  running, handler, routes, fwd_writes >>

\* open_raw_socket: socket() fatal on failure; a failing setsockopt is a
\* warning only and changes nothing the program keeps.
OpenRawSocket ==
  /\ pc = "open_raw_socket"
  /\ \E ok \in BOOLEAN:
       IF ok
       THEN /\ tunnel' = [tunnel EXCEPT !.write_fd6 = next_fd]
            /\ next_fd' = next_fd + 1
            /\ Goto("setgroups")
       ELSE /\ UNCHANGED << tunnel, next_fd >>
            /\ Exit(1)
  /\ UNCHANGED << argv, forwarding_fd, privs, conf_vars, loop_vars, hist_vars,
                  running, handler, routes, fwd_writes >>

(***************************************************************************)
(* drop_root.                                                              *)
(***************************************************************************)
\* What drop_root hands to each of its calls: the one group of setgroups,
\* the option and value of prctl, the ids of setgid and setuid, and for
\* capset << cap.effective, cap.permitted >>, each the one bit named.
PrivArg(call) ==
  CASE call = "setgroups" -> << "AID_INET" >>
    [] call = "prctl" -> << "PR_SET_KEEPCAPS", "1" >>
    [] call = "setgid" -> << "AID_CLAT" >>
    [] call = "setuid" -> << "AID_CLAT" >>
    [] call = "capset" -> << "CAP_NET_ADMIN", "CAP_NET_ADMIN" >>

\* One call of drop_root whose negative return is fatal.
PrivStep(at, call, next) ==
  /\ pc = at
  /\ \E ok \in BOOLEAN:
       /\ privs' = Append(privs, [call |-> call, arg |-> PrivArg(call), ok |-> ok])
       /\ IF ok THEN Goto(next) ELSE Exit(1)
  /\ UNCHANGED << argv, next_fd, tunnel, forwarding_fd, conf_vars, loop_vars,
                  hist_vars, running, handler, routes, fwd_writes >>

\* Mutant of Setgroups: setgid follows at once, the keep-capabilities flag
\* is never set.
Setgroups_ThenSetgid == PrivStep("setgroups", "setgroups", "setgid")

Setgroups == PrivStep("setgroups", "setgroups", "prctl")

\* prctl(PR_SET_KEEPCAPS, 1, 0, 0, 0): the return value is not looked at.
PrctlKeepcaps ==
  /\ pc = "prctl"
  /\ \E ok \in BOOLEAN:
       privs' = Append(privs, [call |-> "prctl", arg |-> PrivArg("prctl"), ok |-> ok])
  /\ Goto("setgid")
  /\ UNCHANGED << argv, next_fd, tunnel, forwarding_fd, conf_vars, loop_vars,
                  hist_vars, running, handler, routes, fwd_writes >>

Setgid == PrivStep("setgid", "setgid", "setuid")
Setuid == PrivStep("setuid", "setuid", "capset")
Capset == PrivStep("capset", "capset", "read_config")


(***************************************************************************)
(* configure_interface.                                                    *)
(***************************************************************************)
\* The IPv6 MTU after the three tests of configure_interface, for the
\* configured value c and the value ifmtu that getifmtu returns when asked.
EffectiveMtu(c, ifmtu) ==
  LET m1 == IF c > MAXMTU THEN MAXMTU ELSE c
      m2 == IF m1 <= 0 THEN ifmtu ELSE m1
  IN IF m2 < MIN_IPV6_MTU THEN MIN_IPV6_MTU ELSE m2

\* Mutant of EffectiveIpv4Mtu: the upper limit tested is m, not m - MTU_DELTA.
EffectiveIpv4Mtu_NoDelta(v, m) ==
  IF v <= 0 \/ v > m THEN m - MTU_DELTA ELSE v

\* The IPv4 MTU for the configured value v and the effective IPv6 MTU m.
EffectiveIpv4Mtu(v, m) ==
  IF v <= 0 \/ v > m - MTU_DELTA THEN m - MTU_DELTA ELSE v

\* Whether configure_interface calls getifmtu for the configured value c.
AsksIfMtu(c) == (IF c > MAXMTU THEN MAXMTU ELSE c) <= 0

\* The configured MTUs and live uplink MTUs of the full run.
RunMtus == {0}
RunIpv4Mtus == {0}
RunIfMtus == {1500}

\* configure_interface: read_config, fatal when it fails. It sets the
\* configured MTUs and the local subnet.
ReadConfig(Mtus, Ipv4Mtus) ==
  /\ pc = "read_config"
  /\ \/ /\ \E c \in Mtus, v \in Ipv4Mtus, s \in Subnets:
             /\ config' = [mtu |-> c, ipv4mtu |-> v, ipv6_local_subnet |-> s]
             /\ conf_in' = [mtu |-> c, ipv4mtu |-> v, ifmtu |-> 0]
        /\ Goto("mtu")
     \/ /\ Exit(1)
        /\ UNCHANGED << config, conf_in >>
  /\ UNCHANGED << boot_vars, tun_steps, loop_vars, hist_vars, running, handler,
                  routes, fwd_writes >>

\* configure_interface: the MTU tests. getifmtu is asked only when the
\* configured IPv6 MTU is <= 0 after the clamp to MAXMTU.
ComputeMtu(IfMtus) ==
  /\ pc = "mtu"
  /\ \E ifmtu \in (IF AsksIfMtu(config.mtu) THEN IfMtus ELSE {0}):
       LET m == EffectiveMtu(config.mtu, ifmtu)
       IN /\ config' = [config EXCEPT !.mtu = m,
                                      !.ipv4mtu = EffectiveIpv4Mtu(config.ipv4mtu, m)]
          /\ conf_in' = [conf_in EXCEPT !.ifmtu = ifmtu]
  /\ Goto("tun_alloc6")
  /\ UNCHANGED << boot_vars, tun_steps, loop_vars, hist_vars, running, handler,
                  routes, fwd_writes >>

\* Mutant of ConfStep: a negative return is not fatal, the next call is
\* made all the same.
ConfStep_NotFatal(at, call, next) ==
  /\ pc = at
  /\ \E ok \in BOOLEAN:
       tun_steps' = IF ok THEN Append(tun_steps, call) ELSE tun_steps
  /\ Goto(next)
  /\ UNCHANGED << boot_vars, config, conf_in, loop_vars, hist_vars, running,
                  handler, routes, fwd_writes >>

\* One backend call of the device configuration whose negative return is
\* fatal: tun_alloc, add_address, if_up.
ConfStep(at, call, next) ==
  /\ pc = at
  /\ \E ok \in BOOLEAN:
       IF ok
       THEN /\ tun_steps' = Append(tun_steps, call)
            /\ Goto(next)
       ELSE /\ UNCHANGED tun_steps
            /\ Exit(1)
  /\ UNCHANGED << boot_vars, config, conf_in, loop_vars, hist_vars, running,
                  handler, routes, fwd_writes >>

TunAlloc6 == ConfStep("tun_alloc6", "tun_alloc6", "tun_alloc4")
TunAlloc4 == ConfStep("tun_alloc4", "tun_alloc4", "add_address4")

\* configure_tun_ip, in the order of its calls.
AddAddress4 == ConfStep("add_address4", "add_address4", "add_address6")
AddAddress6 == ConfStep("add_address6", "add_address6", "if_up6")
IfUp6 == ConfStep("if_up6", "if_up6", "if_up4")
IfUp4 == ConfStep("if_up4", "if_up4", "configure_tun_ipv6")

\* if_route(device6, AF_INET6, subnet, 128, NULL, 1, 0, ROUTE_CREATE): the
\* routes after the call.
RouteCreate(rts, subnet, ok) == IF ok THEN rts \cup {subnet} ELSE rts

\* if_route(..., ROUTE_DELETE): the routes after the call.
RouteDelete(rts, subnet, ok) == IF ok THEN rts \ {subnet} ELSE rts

\* configure_tun_ipv6: install the host route of the current local subnet;
\* fatal when the backend fails.
configure_tun_ipv6(ok, next) ==
  /\ routes' = RouteCreate(routes, config.ipv6_local_subnet, ok)
  /\ IF ok THEN Goto(next) ELSE Exit(1)

\* configure_tun_ip: its last call, configure_tun_ipv6.
ConfigureTunIpRoute ==
  /\ pc = "configure_tun_ipv6"
  /\ \E ok \in BOOLEAN:
       /\ configure_tun_ipv6(ok, "set_forwarding_on")
       /\ tun_steps' = IF ok THEN Append(tun_steps, "route") ELSE tun_steps
  /\ UNCHANGED << boot_vars, config, conf_in, loop_vars, hist_vars, running,
                  handler, fwd_writes >>

(***************************************************************************)
(* main: forwarding, the handler, shutdown.                                *)
(***************************************************************************)
\* Mutant of set_forwarding: a failed write is not fatal.
set_forwarding_NotFatal(setting, ok, next) ==
  /\ fwd_writes' = Append(fwd_writes, [fd |-> forwarding_fd, setting |-> setting, ok |-> ok])
  /\ next

\* set_forwarding: write(fd, setting); a negative return is fatal.
set_forwarding(setting, ok, next) ==
  /\ fwd_writes' = Append(fwd_writes, [fd |-> forwarding_fd, setting |-> setting, ok |-> ok])
  /\ IF ok THEN next ELSE Exit(1)

\* main: set_forwarding(forwarding_fd, "1\n").
SetForwardingOn ==
  /\ pc = "set_forwarding_on"
  /\ \E ok \in BOOLEAN: set_forwarding("1\n", ok, Goto("signal"))
  /\ UNCHANGED << boot_vars, conf_vars, loop_vars, hist_vars, running, handler,
                  routes >>

\* main: signal(SIGTERM, stop_loop); SIG_ERR is fatal.
InstallHandler ==
  /\ pc = "signal"
  /\ \E ok \in BOOLEAN:
       IF ok THEN handler' = TRUE /\ Goto("event_loop")
             ELSE UNCHANGED handler /\ Exit(1)
  /\ UNCHANGED << boot_vars, conf_vars, loop_vars, hist_vars, running, routes,
                  fwd_writes >>

\* main after event_loop returned: set_forwarding(forwarding_fd, "0\n"),
\* then return 0.
Shutdown ==
  /\ pc = "set_forwarding_off"
  /\ \E ok \in BOOLEAN: set_forwarding("0\n", ok, Exit(0))
  /\ UNCHANGED << boot_vars, conf_vars, loop_vars, hist_vars, running, handler,
                  routes >>

\* stop_loop, the SIGTERM handler: it can run between any two steps of the
\* main path once it is installed.
StopLoop ==
  /\ handler
  /\ pc # "exited"
  /\ running' = 0
  /\ sig' = TRUE
  /\ UNCHANGED << pc, exit_status, boot_vars, conf_vars, loop_vars, handler,
                  routes, fwd_writes, last_read, zero_fd, xlat_after_zero,
                  polls_after_sig, poll_log, last_change >>

(***************************************************************************)
(* read_packet.                                                            *)
(***************************************************************************)
\* The return values of read() tried: an error, 0 (the device is gone), a
\* short read, exactly a header, a header and a payload.
ReadLens == {-1, 0, 3, header_size, 60}

\* The first four bytes of the frames tried, struct tun_pi: flags (two
\* bytes), then proto in network byte order. IPv4, IPv6, IPv4 with its two
\* proto bytes swapped, IPv4 with flags set, ARP.
Headers ==
  { <<0, 0, 8, 0>>, <<0, 0, 134, 221>>, <<0, 0, 0, 8>>, <<0, 1, 8, 0>>,
    <<0, 0, 8, 6>> }

\* packet[0..3] after memset(packet, 0, PACKETLEN) and a read() that
\* returned readlen bytes of a frame starting with hdr.
Buffer(readlen, hdr) == [k \in 1..header_size |-> IF k <= readlen THEN hdr[k] ELSE 0]

\* ntohs of the two bytes hi, lo as they lie in memory.
ntohs(hi, lo) == hi * 256 + lo

\* Mutant of read_packet_calls: the two destination descriptors are swapped.
read_packet_calls_SwappedFd(tun, readlen, packet) ==
  IF readlen <= 0 \/ readlen < header_size THEN <<>>
  ELSE LET proto == ntohs(packet[3], packet[4])
       IN IF proto = ETH_P_IP
          THEN << [fd |-> tun.fd4, proto_is_ip |-> (proto = ETH_P_IP),
                   len |-> readlen - header_size] >>
          ELSE IF proto = ETH_P_IPV6
          THEN << [fd |-> tun.write_fd6, proto_is_ip |-> (proto = ETH_P_IP),
                   len |-> readlen - header_size] >>
          ELSE <<>>

\* Mutant of read_packet_calls: the second argument is (proto == ETH_P_IPV6).
read_packet_calls_FlagInverted(tun, readlen, packet) ==
  IF readlen <= 0 \/ readlen < header_size THEN <<>>
  ELSE LET proto == ntohs(packet[3], packet[4])
       IN IF proto = ETH_P_IP
          THEN << [fd |-> tun.write_fd6, proto_is_ip |-> (proto = ETH_P_IPV6),
                   len |-> readlen - header_size] >>
          ELSE IF proto = ETH_P_IPV6
          THEN << [fd |-> tun.fd4, proto_is_ip |-> (proto = ETH_P_IPV6),
                   len |-> readlen - header_size] >>
          ELSE <<>>

\* Mutant of read_packet_calls: the test readlen < header_size is missing.
read_packet_calls_NoShortCheck(tun, readlen, packet) ==
  IF readlen <= 0 THEN <<>>
  ELSE LET proto == ntohs(packet[3], packet[4])
       IN IF proto = ETH_P_IP
          THEN << [fd |-> tun.write_fd6, proto_is_ip |-> (proto = ETH_P_IP),
                   len |-> readlen - header_size] >>
          ELSE IF proto = ETH_P_IPV6
          THEN << [fd |-> tun.fd4, proto_is_ip |-> (proto = ETH_P_IP),
                   len |-> readlen - header_size] >>
          ELSE <<>>

\* The translate_packet calls read_packet makes for a read that returned
\* readlen with packet[0..3] = packet: each call's descriptor, its second
\* argument, which is the value of (proto == ETH_P_IP), and its length.
read_packet_calls(tun, readlen, packet) ==
  IF readlen < 0 THEN <<>>
  ELSE IF readlen = 0 THEN <<>>
  ELSE IF readlen < header_size THEN <<>>
  ELSE LET proto == ntohs(packet[3], packet[4])
       IN IF proto = ETH_P_IP
          THEN << [fd |-> tun.write_fd6, proto_is_ip |-> (proto = ETH_P_IP),
                   len |-> readlen - header_size] >>
          ELSE IF proto = ETH_P_IPV6
          THEN << [fd |-> tun.fd4, proto_is_ip |-> (proto = ETH_P_IP),
                   len |-> readlen - header_size] >>
          ELSE <<>>

\* Mutant of read_packet_running: a read of 0 bytes does not clear running.
read_packet_running_NotCleared(run, readlen) == run

\* Mutant of read_packet_running: a failed read clears the flag as well.
read_packet_running_ClearedOnError(run, readlen) ==
  IF readlen <= 0 THEN 0 ELSE run

\* running after read_packet: cleared by a read of 0 bytes only.
read_packet_running(run, readlen) == IF readlen = 0 THEN 0 ELSE run

\* wait_fd[i].fd
WaitFd(i) == IF i = 0 THEN tunnel.read_fd6 ELSE tunnel.fd4

Min(a, b) == IF a < b THEN a ELSE b

\* read_packet(wait_fd[i].fd, tunnel) with the read's result drawn.
read_packet(i) ==
  \E readlen \in ReadLens, hdr \in Headers:
    LET packet == Buffer(readlen, hdr)
        calls == read_packet_calls(tunnel, readlen, packet)
    IN /\ running' = read_packet_running(running, readlen)
       /\ last_read' = [i |-> i, fd |-> WaitFd(i), readlen |-> readlen,
                        packet |-> packet, run |-> <<running, running'>>,
                        calls |-> calls]
       /\ zero_fd' = IF readlen = 0 /\ zero_fd = -1 THEN i ELSE zero_fd
       /\ xlat_after_zero' = IF zero_fd # -1
                             THEN Min(2, xlat_after_zero + Len(calls))
                             ELSE xlat_after_zero

(***************************************************************************)
(* event_loop.                                                             *)
(***************************************************************************)
\* The seconds that may pass between two calls of time(NULL).
Elapse ==
  {0, INTERFACE_POLL_FREQUENCY - 1, INTERFACE_POLL_FREQUENCY,
   INTERFACE_POLL_FREQUENCY + 1}

\* What poll() may return: an error (-1), or the set of readable
\* descriptors (empty: the timeout).
PollResults ==
  {[error |-> TRUE, ready |-> {}]} \cup [error : {FALSE}, ready : SUBSET {0, 1}]

\* event_loop before its loop: start the timer, set up wait_fd.
EventLoopInit ==
  /\ pc = "event_loop"
  /\ last_interface_poll' = now
  /\ revents' = [i \in 0..1 |-> FALSE]
  /\ Goto("while_running")
  /\ UNCHANGED << boot_vars, conf_vars, now, interface_ip, hist_vars, running,
                  handler, routes, fwd_writes >>

\* while(running): the only read of the flag.
WhileRunning ==
  /\ pc = "while_running"
  /\ IF running # 0 THEN Goto("poll") ELSE Goto("set_forwarding_off")
  /\ last_read' = NoRead
  /\ poll_log' = NoPoll
  /\ UNCHANGED << boot_vars, conf_vars, loop_vars, running, handler, routes,
                  fwd_writes, zero_fd, xlat_after_zero, sig, polls_after_sig,
                  last_change >>

\* poll(wait_fd, 2, timeout): on -1 the reads are skipped, else revents
\* says which descriptors are readable.
Poll ==
  /\ pc = "poll"
  /\ \E r \in PollResults:
       IF r.error
       THEN /\ UNCHANGED revents
            /\ Goto("time")
       ELSE /\ revents' = [i \in 0..1 |-> i \in r.ready]
            /\ Goto("read0")
  /\ polls_after_sig' = IF sig THEN Min(2, polls_after_sig + 1) ELSE polls_after_sig
  /\ UNCHANGED << boot_vars, conf_vars, now, last_interface_poll, interface_ip,
                  running, handler, routes, fwd_writes, last_read, zero_fd,
                  xlat_after_zero, sig, poll_log, last_change >>

\* One round of for(i = 0; i < 2; i++): read_packet when POLLIN is set.
ForFd(i, at, next) ==
  /\ pc = at
  /\ IF revents[i]
     THEN read_packet(i)
     ELSE UNCHANGED << running, last_read, zero_fd, xlat_after_zero >>
  /\ Goto(next)
  /\ UNCHANGED << boot_vars, conf_vars, loop_vars, handler, routes, fwd_writes,
                  sig, polls_after_sig, poll_log, last_change >>

ForFd0 == ForFd(0, "read0", "read1")
ForFd1 == ForFd(1, "read1", "time")

\* Mutant of PollDue: the timer is tested with <=, so that exactly the
\* interval is enough.
PollDue_AtLeast(last, t) == last <= t - INTERFACE_POLL_FREQUENCY

\* Whether event_loop calls interface_poll, for its timer and the clock.
PollDue(last, t) == last < t - INTERFACE_POLL_FREQUENCY

\* time_t now = time(NULL) and the test of the timer.
TimerCheck ==
  /\ pc = "time"
  /\ \E d \in Elapse:
       /\ now + d <= MaxTime
       /\ now' = now + d
  /\ IF PollDue(last_interface_poll, now')
     THEN Goto("interface_poll")
     ELSE Goto("while_running")
  /\ UNCHANGED << boot_vars, conf_vars, revents, last_interface_poll,
                  interface_ip, hist_vars, running, handler, routes, fwd_writes >>

(***************************************************************************)
(* interface_poll.                                                         *)
(***************************************************************************)
\* What getinterface_ip may return: NULL or an address of the uplink.
InterfaceIps == {NoAddr} \cup UplinkAddrs

\* Mutant of PollGetIp: with no uplink address the configuration is torn
\* down as for a changed subnet.
PollGetIp_TearsDownOnNoAddr ==
  /\ pc = "interface_poll"
  /\ \E ip \in InterfaceIps:
       /\ poll_log' = [polled |-> TRUE, ip |-> ip,
                       from |-> config.ipv6_local_subnet, routes |-> routes,
                       ops |-> <<>>]
       /\ LET derived == config_generate_local_ipv6_subnet(ip)
          IN IF derived # config.ipv6_local_subnet
             THEN /\ interface_ip' = derived
                  /\ Goto("deconfigure_tun_ipv6")
             ELSE /\ UNCHANGED interface_ip
                  /\ Goto("poll_return")
  /\ UNCHANGED << boot_vars, conf_vars, revents, now, last_interface_poll,
                  running, handler, routes, fwd_writes, last_read, zero_fd,
                  xlat_after_zero, sig, polls_after_sig, last_change >>

\* interface_poll up to its test: ask for the uplink address, derive the
\* subnet, compare it with the configured one.
PollGetIp ==
  /\ pc = "interface_poll"
  /\ \E ip \in InterfaceIps:
       /\ poll_log' = [polled |-> TRUE, ip |-> ip,
                       from |-> config.ipv6_local_subnet, routes |-> routes,
                       ops |-> <<>>]
       /\ IF ip = NoAddr
          THEN /\ UNCHANGED interface_ip
               /\ Goto("poll_return")
          ELSE LET derived == config_generate_local_ipv6_subnet(ip)
               IN IF derived # config.ipv6_local_subnet
                  THEN /\ interface_ip' = derived
                       /\ Goto("deconfigure_tun_ipv6")
                  ELSE /\ UNCHANGED interface_ip
                       /\ Goto("poll_return")
  /\ UNCHANGED << boot_vars, conf_vars, revents, now, last_interface_poll,
                  running, handler, routes, fwd_writes, last_read, zero_fd,
                  xlat_after_zero, sig, polls_after_sig, last_change >>

\* What interface_poll did, added to its log.
Logged(op, subnet) ==
  [poll_log EXCEPT !.ops = Append(@, [op |-> op, subnet |-> subnet])]

\* deconfigure_tun_ipv6: remove the host route of the current local subnet;
\* a failure is a warning.
PollDeconfigure ==
  /\ pc = "deconfigure_tun_ipv6"
  /\ \E ok \in BOOLEAN:
       routes' = RouteDelete(routes, config.ipv6_local_subnet, ok)
  /\ poll_log' = Logged("delete", config.ipv6_local_subnet)
  /\ Goto("memcpy")
  /\ UNCHANGED << boot_vars, conf_vars, loop_vars, running, handler, fwd_writes,
                  last_read, zero_fd, xlat_after_zero, sig, polls_after_sig,
                  last_change >>

\* Mutant of PollMemcpy: the in-memory subnet is not overwritten, so the
\* route that follows is created for the old subnet.
PollMemcpy_Omitted ==
  /\ pc = "memcpy"
  /\ Goto("poll_configure")
  /\ UNCHANGED << boot_vars, conf_vars, loop_vars, hist_vars, running, handler,
                  routes, fwd_writes >>

\* memcpy(&Global_Clatd_Config.ipv6_local_subnet, &interface_ip->ip6, ...)
PollMemcpy ==
  /\ pc = "memcpy"
  /\ config' = [config EXCEPT !.ipv6_local_subnet = interface_ip]
  /\ poll_log' = Logged("set", interface_ip)
  /\ last_change' = interface_ip
  /\ Goto("poll_configure")
  /\ UNCHANGED << boot_vars, conf_in, tun_steps, loop_vars, running, handler,
                  routes, fwd_writes, last_read, zero_fd, xlat_after_zero, sig,
                  polls_after_sig >>

\* interface_poll's call of configure_tun_ipv6.
PollConfigure ==
  /\ pc = "poll_configure"
  /\ \E ok \in BOOLEAN: configure_tun_ipv6(ok, "poll_return")
  /\ poll_log' = Logged("create", config.ipv6_local_subnet)
  /\ UNCHANGED << boot_vars, conf_vars, loop_vars, running, handler, fwd_writes,
                  last_read, zero_fd, xlat_after_zero, sig, polls_after_sig,
                  last_change >>

\* interface_poll returns (free), and event_loop resets its timer.
PollReturn ==
  /\ pc = "poll_return"
  /\ last_interface_poll' = now
  /\ interface_ip' = NoAddr
  /\ Goto("while_running")
  /\ UNCHANGED << boot_vars, conf_vars, revents, now, hist_vars, running,
                  handler, routes, fwd_writes >>

(***************************************************************************)
(* The specifications.                                                     *)
(***************************************************************************)
Next ==
  \/ ParseArgs
  \/ TunOpen6
  \/ TunOpen4
  \/ OpenForwarding
  \/ OpenRawSocket
  \/ Setgroups
  \/ PrctlKeepcaps
  \/ Setgid
  \/ Setuid
  \/ Capset
  \/ ReadConfig(RunMtus, RunIpv4Mtus)
  \/ ComputeMtu(RunIfMtus)
  \/ TunAlloc6
  \/ TunAlloc4
  \/ AddAddress4
  \/ AddAddress6
  \/ IfUp6
  \/ IfUp4
  \/ ConfigureTunIpRoute
  \/ SetForwardingOn
  \/ InstallHandler
  \/ EventLoopInit
  \/ WhileRunning
  \/ Poll
  \/ ForFd0
  \/ ForFd1
  \/ TimerCheck
  \/ PollGetIp
  \/ PollDeconfigure
  \/ PollMemcpy
  \/ PollConfigure
  \/ PollReturn
  \/ Shutdown
  \/ StopLoop

Spec == Init /\ [][Next]_vars

\* The configured MTUs and live uplink MTUs tried for the MTU computation:
\* the values at and next to each limit the code tests, and a jumbo MTU.
AllMtus ==
  {-1, 0, 1, MIN_IPV6_MTU - 1, MIN_IPV6_MTU, MIN_IPV6_MTU + 1, MAXMTU,
   MAXMTU + 1, 9000}
AllIpv4Mtus ==
  {-1, 0, 1, MIN_IPV6_MTU - MTU_DELTA, MIN_IPV6_MTU - MTU_DELTA + 1,
   MAXMTU - MTU_DELTA, MAXMTU - MTU_DELTA + 1, 9000 - MTU_DELTA,
   9000 - MTU_DELTA + 1}
AllIfMtus ==
  {-1, 0, 1000, MIN_IPV6_MTU - 1, MIN_IPV6_MTU, MAXMTU, MAXMTU + 1, 9000}

\* The run from process start to the end of configure_interface's MTU
\* computation, over all the MTU values above.
NextMtu ==
  \/ ParseArgs
  \/ TunOpen6
  \/ TunOpen4
  \/ OpenForwarding
  \/ OpenRawSocket
  \/ Setgroups
  \/ PrctlKeepcaps
  \/ Setgid
  \/ Setuid
  \/ Capset
  \/ ReadConfig(AllMtus, AllIpv4Mtus)
  \/ ComputeMtu(AllIfMtus)

SpecMtu == Init /\ [][NextMtu]_vars

(***************************************************************************)
(* Properties.                                                             *)
(***************************************************************************)
\* The positions of the main path inside event_loop.
LoopPcs ==
  {"event_loop", "while_running", "poll", "read0", "read1", "time",
   "interface_poll", "deconfigure_tun_ipv6", "memcpy", "poll_configure",
   "poll_return"}

\* The protocol tag at packet[2..3] of the last read, in host order.
LastTag == last_read.packet[3] * 256 + last_read.packet[4]

\* The local subnet of an uplink address.
Derived(ip) == [prefix |-> ip.prefix, host |-> 0]

\* The last interface_poll found the uplink in another subnet than the
\* configured one.
PollChanged ==
  /\ poll_log.polled
  /\ poll_log.ip # NoAddr
  /\ Derived(poll_log.ip) # poll_log.from

\* C1 as stated: once a read returned 0 bytes, running is cleared, no new
\* wait or read round is begun, and translate_packet is never called again.
C1_NoDispatchAfterZeroRead ==
  zero_fd # -1 =>
    /\ running = 0
    /\ pc \notin {"poll", "read0"}
    /\ xlat_after_zero = 0

\* C1 (amended): once a read returned 0 bytes, running is cleared and no new
\* wait is begun, so the loop ends at its next while(running) test; the only
\* translate_packet call that can follow the zero-length read is the one for
\* fd4's frame in the same iteration, after a zero-length read on read_fd6.
C1_ZeroReadStopsAtIterationEnd ==
  zero_fd # -1 =>
    /\ running = 0
    /\ pc \notin {"poll", "read0"}
    /\ xlat_after_zero <= 1
    /\ xlat_after_zero = 1 => zero_fd = 0 /\ pc # "read1"
    /\ zero_fd = 1 => xlat_after_zero = 0

\* C1 witness: read_fd6 read 0 bytes, fd4's frame of the same iteration was
\* dispatched, and the loop has ended.
C1_Witness ==
  /\ zero_fd = 0
  /\ xlat_after_zero = 1
  /\ pc = "set_forwarding_off"

\* C2 as stated: after SIGTERM at most one wait is still begun, and the
\* process does not end without a write of "0\n" to the forwarding control.
C2_SignalThenForwardingOff ==
  sig =>
    /\ polls_after_sig <= 1
    /\ pc = "exited" =>
         \E k \in 1..Len(fwd_writes): fwd_writes[k].setting = "0\n"

C5_SubnetChangeSequence ==
  LET A == poll_log.from
      B == Derived(poll_log.ip)
      expected == << [op |-> "delete", subnet |-> A], [op |-> "set", subnet |-> B],
                     [op |-> "create", subnet |-> B] >>
      n == Len(poll_log.ops)
  IN /\ PollChanged =>
          /\ n <= 3
          /\ poll_log.ops = SubSeq(expected, 1, n)
          /\ pc = "deconfigure_tun_ipv6" => n = 0
          /\ pc = "memcpy" => n = 1
          /\ pc = "poll_configure" => n = 2
          /\ pc \in {"poll_return", "exited"} => n = 3
          /\ config.ipv6_local_subnet = (IF n >= 2 THEN B ELSE A)
          /\ pc = "poll_return" => B \in routes
     /\ (poll_log.polled /\ ~PollChanged) => poll_log.ops = <<>>
     /\ (last_change # NoAddr /\ pc # "poll_configure") =>
          config.ipv6_local_subnet = last_change

\* C5 witness: after a switch to subnet B, a later poll saw an address of B
\* again and made no operation.
C5_Witness ==
  /\ poll_log.polled
  /\ poll_log.ip # NoAddr
  /\ last_change # NoAddr
  /\ Derived(poll_log.ip) = last_change
  /\ poll_log.ops = <<>>
  /\ pc = "poll_return"

\* C6: the step of interface_poll that finds no uplink address, or an
\* address of the configured subnet, changes neither the configuration nor
\* the routes nor running, makes no route operation and goes on in the loop.
C6_NoChangeNoRouteOps ==
  [][ ( /\ pc = "interface_poll"
        /\ poll_log'.polled
        /\ \/ poll_log'.ip = NoAddr
           \/ Derived(poll_log'.ip) = config.ipv6_local_subnet )
      => /\ config' = config
         /\ routes' = routes
         /\ running' = running
         /\ poll_log'.ops = <<>>
         /\ pc' = "poll_return"
         /\ exit_status' = -1 ]_vars

\* C6 witness: a poll found no uplink address while a route was installed,
\* and returns with that route in place.
C6_Witness ==
  /\ pc = "poll_return"
  /\ poll_log.polled
  /\ poll_log.ip = NoAddr
  /\ routes = {config.ipv6_local_subnet}
  /\ running = 1

\* C7 as stated: after the MTU computation the IPv6 MTU is within
\* [1280, MAXMTU]; above MAXMTU it is MAXMTU, from 1 to 1279 it is 1280,
\* from 1280 to MAXMTU it is the configured value.
C7_Ipv6MtuWithinLimits ==
  pc = "tun_alloc6" =>
    LET c == conf_in.mtu
        m == config.mtu
    IN /\ 1280 <= m /\ m <= MAXMTU
       /\ c > MAXMTU => m = MAXMTU
       /\ (0 < c /\ c < 1280) => m = 1280
       /\ (1280 <= c /\ c <= MAXMTU) => m = c

\* C8: the IPv4 MTU is m - 28 when the configured value is <= 0 or above
\* m - 28, where m is the effective IPv6 MTU, and the configured value
\* otherwise; it is always positive and at most m - 28.
C8_Ipv4MtuClamped ==
  pc = "tun_alloc6" =>
    LET v == conf_in.ipv4mtu
        m == config.mtu
        e == config.ipv4mtu
    IN /\ (v <= 0 \/ v > m - 28) => e = m - 28
       /\ ~(v <= 0 \/ v > m - 28) => e = v
       /\ 0 < e /\ e <= m - 28

\* C8 witness: a configured IPv4 MTU one above m - 28 was lowered to m - 28.
C8_Witness ==
  /\ pc = "tun_alloc6"
  /\ conf_in.ipv4mtu = config.mtu - 28 + 1
  /\ config.ipv4mtu = config.mtu - 28

\* C9: a failed read and a read shorter than the header make no
\* translate_packet call and leave running as it was, whatever packet[2..3]
\* holds; a read of exactly the header with a valid tag is dispatched with
\* length 0.
C9_ShortReadDropped ==
  last_read.i # -1 =>
    /\ (last_read.readlen < 0 \/ (0 < last_read.readlen /\ last_read.readlen < 4)) =>
         /\ last_read.calls = <<>>
         /\ last_read.run[2] = last_read.run[1]
    /\ (last_read.readlen = 4 /\ LastTag \in {2048, 34525}) =>
         /\ Len(last_read.calls) = 1
         /\ last_read.calls[1].len = 0

\* C9 witness: a read of 3 bytes left the bytes of the IPv4 tag at
\* packet[2..3], and nothing was dispatched while the loop runs on.
C9_Witness ==
  /\ last_read.readlen = 3
  /\ LastTag = 2048
  /\ last_read.calls = <<>>
  /\ last_read.run = <<1, 1>>

\* The device configuration calls of configure_interface, in order.
AllTunSteps ==
  << "tun_alloc6", "tun_alloc4", "add_address4", "add_address6", "if_up6",
     "if_up4", "route" >>

\* C10: inside event_loop exactly one write to the forwarding control has
\* been made, "1\n", and it succeeded; the first write is made only after
\* the whole device configuration; when it fails the process has exited
\* with status 1 and the handler was never installed.
C10_OneForwardingEnableBeforeLoop ==
  /\ pc \in LoopPcs =>
       /\ Len(fwd_writes) = 1
       /\ fwd_writes[1] = [fd |-> forwarding_fd, setting |-> "1\n", ok |-> TRUE]
       /\ forwarding_fd >= 0
  /\ fwd_writes # <<>> =>
       /\ fwd_writes[1].setting = "1\n"
       /\ tun_steps = AllTunSteps
       /\ config.ipv6_local_subnet \in Subnets
  /\ (fwd_writes # <<>> /\ ~fwd_writes[1].ok) =>
       /\ pc = "exited"
       /\ exit_status = 1
       /\ Len(fwd_writes) = 1
       /\ ~handler

\* C10 witness: the loop waits in poll() after the one successful write.
C10_Witness ==
  /\ pc = "poll"
  /\ Len(fwd_writes) = 1
  /\ fwd_writes[1].ok

\* The -n values tried that are empty or are not a number to their end.
MalformedNetIds ==
  { <<>>, <<"1", "2", "x">>, <<"n", "o", "t">>, <<"-">>, <<" ">> }

\* The command lines with no -i, or with a -n value that is empty or does
\* not parse to its end.
InvalidArgs ==
  \/ argv.i = NULL
  \/ argv.n.given /\ argv.n.s \in MalformedNetIds

\* C11: with no -i, or with a -n value that is empty or not a number to its
\* end, the process never gets past the argument checks and ends with a
\* status other than 0; no tunnel descriptor, forwarding descriptor or raw
\* socket is ever opened, no privilege-drop call and no forwarding write is
\* made.
C11_InvalidArgsExitBeforeOpen ==
  InvalidArgs =>
    /\ pc \in {"getopt", "exited"}
    /\ pc = "exited" => exit_status > 0
    /\ tunnel = [read_fd6 |-> -1, fd4 |-> -1, write_fd6 |-> -1]
    /\ forwarding_fd = -1
    /\ next_fd = 3
    /\ privs = <<>>
    /\ fwd_writes = <<>>
    /\ tun_steps = <<>>

\* C11 witness: "-i wlan0 -n 12x" has ended the process.
C11_Witness ==
  /\ pc = "exited"
  /\ argv.i = "wlan0"
  /\ ~argv.h
  /\ argv.n = [given |-> TRUE, s |-> <<"1", "2", "x">>]
  /\ exit_status = 1

\* The forwarding writes of "0\n" made so far, as indexes of fwd_writes.
DisableWrites == {k \in 1..Len(fwd_writes): fwd_writes[k].setting = "0\n"}

\* C12 as stated: when the write of "0\n" after the loop has failed, the
\* process has still ended with status 0.
C12_FailedDisableExitsZero ==
  (pc = "exited" /\ \E k \in DisableWrites: ~fwd_writes[k].ok) =>
    exit_status = 0

\* C13 as stated: once the loop phase is entered (the write of "1\n" has
\* succeeded and the handler is installed), the process has not ended
\* without a write of "0\n" having been issued.
C13_NoExitWithoutDisableWrite ==
  (pc = "exited" /\ handler /\ fwd_writes # <<>> /\ fwd_writes[1].ok) =>
    DisableWrites # {}

\* C14 as stated: at most one host route is installed, and an installed
\* route is the one of the current ipv6_local_subnet, also after a route
\* removal that failed. It is read while the process runs, at the points
\* where interface_poll is not in the middle of its remove-set-install
\* sequence.
C14_AtMostOneCurrentRoute ==
  pc \notin {"memcpy", "poll_configure", "exited"} =>
    /\ Cardinality(routes) <= 1
    /\ routes \subseteq {config.ipv6_local_subnet}

\* C15 as stated: a drop_root call that failed is the last call made, the
\* process has ended, and nothing of the interface configuration has run.
C15_EveryDropStepFatal ==
  \A k \in 1..Len(privs):
    ~privs[k].ok =>
      /\ k = Len(privs)
      /\ pc = "exited"
      /\ exit_status = 1
      /\ tun_steps = <<>>

\* The calls of drop_root in their order.
DropRootOrder == << "setgroups", "prctl", "setgid", "setuid", "capset" >>

\* C16: the calls drop_root has made are, in this order, setgroups with the
\* one networking group, prctl(PR_SET_KEEPCAPS, 1), setgid, setuid, capset
\* with effective = permitted = the one capability CAP_NET_ADMIN; so the
\* flag is set before setuid, capset comes after a successful setgid and a
\* successful setuid, and the interface configuration starts only after
\* all five.
C16_DropRootOrder ==
  /\ Len(privs) <= Len(DropRootOrder)
  /\ \A k \in 1..Len(privs):
       /\ privs[k].call = DropRootOrder[k]
       /\ privs[k].arg = PrivArg(DropRootOrder[k])
  /\ \A k \in 1..Len(privs):
       privs[k].call = "setuid" =>
         \E j \in 1..(k - 1): privs[j].call = "prctl"
  /\ \A k \in 1..Len(privs):
       privs[k].call = "capset" =>
         /\ privs[k].arg = << "CAP_NET_ADMIN", "CAP_NET_ADMIN" >>
         /\ \E j \in 1..(k - 1): privs[j].call = "setgid" /\ privs[j].ok
         /\ \E j \in 1..(k - 1): privs[j].call = "setuid" /\ privs[j].ok
  /\ pc \in {"read_config", "mtu"} \/ tun_steps # <<>> =>
       /\ Len(privs) = Len(DropRootOrder)
       /\ privs[Len(privs)].ok

\* C16 witness: capset has been made, after the four other calls.
C16_Witness ==
  /\ Len(privs) = 5
  /\ privs[5].call = "capset"
  /\ privs[5].ok
  /\ pc = "read_config"

\* The four descriptors main opens, in the order of its opens.
OpenedFds == << tunnel.read_fd6, tunnel.fd4, forwarding_fd, tunnel.write_fd6 >>

\* C17: the two tunnel descriptors, the forwarding descriptor and the raw
\* socket are opened in this order, each only after the one before it is
\* open; drop_root starts only when all four are open, so a run that ended
\* on a failed open has made no drop_root call; and from the first
\* drop_root call on no descriptor is opened and none of the four is
\* assigned again.
C17_DescriptorsOpenedBeforeDrop ==
  /\ [](/\ \A k \in 2..4: OpenedFds[k] >= 0 => OpenedFds[k - 1] >= 0
        /\ \A k \in 2..4: OpenedFds[k] >= 0 => OpenedFds[k - 1] < OpenedFds[k]
        /\ privs # <<>> => \A k \in 1..4: OpenedFds[k] >= 0
        /\ (pc = "exited" /\ \E k \in 1..4: OpenedFds[k] < 0) =>
             (privs = <<>> /\ exit_status = 1))
  /\ [][privs # <<>> =>
          /\ tunnel' = tunnel
          /\ forwarding_fd' = forwarding_fd
          /\ next_fd' = next_fd]_vars

\* C17 witness: inside the loop the four descriptors are the four opened
\* first, and no other was handed out.
C17_Witness ==
  /\ pc = "poll"
  /\ OpenedFds = << 3, 4, 5, 6 >>
  /\ next_fd = 7
  /\ Len(privs) = 5

\* Where the main path stands before each call of AllTunSteps.
TunStepPcs ==
  << "tun_alloc6", "tun_alloc4", "add_address4", "add_address6", "if_up6",
     "if_up4", "configure_tun_ipv6" >>

\* The place of a call among the device-configuration calls that succeeded
\* so far, 0 when it has not.
StepAt(call) ==
  IF \E k \in 1..Len(tun_steps): tun_steps[k] = call
  THEN CHOOSE k \in 1..Len(tun_steps): tun_steps[k] = call
  ELSE 0

\* C18: a device is brought up only after both address assignments have
\* succeeded, the host route is installed only after both devices are up,
\* each call is made only when every call before it has succeeded, and a
\* run that ended inside the sequence has status 1 and has made no later
\* call (nothing after the configuration has run either).
C18_AddressesThenUpThenRoute ==
  /\ \A up \in {"if_up6", "if_up4"}:
       StepAt(up) > 0 =>
         /\ 0 < StepAt("add_address4") /\ StepAt("add_address4") < StepAt(up)
         /\ 0 < StepAt("add_address6") /\ StepAt("add_address6") < StepAt(up)
  /\ StepAt("route") > 0 =>
       /\ 0 < StepAt("if_up6") /\ StepAt("if_up6") < StepAt("route")
       /\ 0 < StepAt("if_up4") /\ StepAt("if_up4") < StepAt("route")
  /\ routes # {} => StepAt("route") > 0
  /\ \A k \in 1..Len(TunStepPcs):
       pc = TunStepPcs[k] => tun_steps = SubSeq(AllTunSteps, 1, k - 1)
  /\ (pc = "exited" /\ tun_steps # <<>> /\ tun_steps # AllTunSteps) =>
       /\ exit_status = 1
       /\ \E k \in 1..Len(AllTunSteps): tun_steps = SubSeq(AllTunSteps, 1, k)
       /\ fwd_writes = <<>>
       /\ ~handler

\* C18 witness: the IPv6 address assignment failed after the IPv4 one had
\* succeeded; no device was brought up.
C18_Witness ==
  /\ pc = "exited"
  /\ exit_status = 1
  /\ tun_steps = << "tun_alloc6", "tun_alloc4", "add_address4" >>

\* A step of the main path that ends the timer test of event_loop.
TimerStep == pc = "time" /\ pc' # pc

\* C19 as stated: the timer test calls interface_poll exactly when at least
\* INTERFACE_POLL_FREQUENCY seconds have passed since the timer was set,
\* also when exactly that many have.
C19_PollAtLeastInterval ==
  [][TimerStep =>
       (pc' = "interface_poll" <=>
          now' - last_interface_poll >= INTERFACE_POLL_FREQUENCY)]_vars

\* C19 (amended): every iteration ends in the timer test, whether poll()
\* failed, timed out or returned readable descriptors; the test calls
\* interface_poll exactly when more than INTERFACE_POLL_FREQUENCY seconds
\* have passed since the timer was set (not when exactly that many have);
\* inside the loop the timer changes only when interface_poll returns, and
\* then it is set to the time the test has read.
C19_PollAfterMoreThanInterval ==
  [][/\ TimerStep =>
          /\ pc' \in {"interface_poll", "while_running"}
          /\ pc' = "interface_poll" <=>
               now' - last_interface_poll > INTERFACE_POLL_FREQUENCY
     /\ (pc = "poll" /\ pc' # pc) => pc' \in {"read0", "time"}
     /\ (pc = "read0" /\ pc' # pc) => pc' = "read1"
     /\ (pc = "read1" /\ pc' # pc) => pc' = "time"
     /\ (pc = "poll_return" /\ pc' # pc) =>
          /\ pc' = "while_running"
          /\ last_interface_poll' = now
     /\ (pc # "event_loop" /\ last_interface_poll' # last_interface_poll) =>
          pc = "poll_return"]_vars

\* C19 witness: the timer test has found exactly the interval elapsed and
\* has gone back to the head of the loop without a call of interface_poll.
C19_Witness ==
  /\ pc = "while_running"
  /\ now - last_interface_poll = INTERFACE_POLL_FREQUENCY
  /\ ~poll_log.polled

=============================================================================
